---- MODULE Spec2Model ----
(***************************************************************************)
(* Model of the frostml training driver, src/train.py: main() (bootstrap,  *)
(* resume, epoch loop, checkpointing) and the train()/valid() passes, run   *)
(* by `world` cooperating processes that meet at the metric reduction.      *)
(*                                                                         *)
(* Abstractions.  Model weights are the number of gradients applied, the   *)
(* gradient state the number of backward passes accumulated.               *)
(* The learning rate is lr0 * gamma^k and is held as the exponent k (exact  *)
(* arithmetic, no float rounding).  Of the three tracked metrics only acc1  *)
(* is kept; a batch's acc1 is 0 or 1 and a global average is held scaled by *)
(* Scale so that it stays an integer.  frostml.core.dist and               *)
(* frostml.utils are not part of src/; their operators are modelled from    *)
(* their documented contracts.                                             *)
(***************************************************************************)
EXTENDS Integers, Sequences, FiniteSets, TLC

\* ------------------------------------------------------------- bounds
NumProcs == 2
MaxBatches == 2
MaxEpochs == 3
MaxStart == 1
MaxStepSize == 2
MaxRuns == 2

Ranks == 0 .. NumProcs - 1
AccValues == {0, 1}

RECURSIVE Gcd(_, _)
Gcd(a, b) == IF b = 0 THEN a ELSE Gcd(b, a % b)

RECURSIVE LcmUpTo(_)
LcmUpTo(n) == IF n <= 1 THEN 1 ELSE (n * LcmUpTo(n - 1)) \div Gcd(n, LcmUpTo(n - 1))

\* Every possible observation count divides Scale, so sum * Scale / count is exact.
Scale == LcmUpTo(NumProcs * MaxBatches)

VARIABLES
    args,           \* the parsed command line (identical in every process)
    env,            \* the collaborators: pipeline lengths, world size, tracker policy
    disk,           \* the save directory and its two checkpoint files
    pc,             \* each process's position in main()/train()/valid()
    start_epoch,    \* args.start_epoch of each process (line 91 rewrites it)
    writer,         \* args.writer of each process: "unset", "none" or "open"
    dir_missing,    \* the result of `not os.path.exists(args.save_dir)`, line 96
    epoch,          \* the loop variable of line 108
    idx,            \* the batch index of the running pass
    tracker,        \* the EpochTracker of the running pass
    model,          \* model parameters: number of updates applied
    optimizer,      \* optimizer state: steps taken and learning-rate exponent
    grad,           \* gradient state: backward passes accumulated (0 = no gradient)
    scheduler,      \* StepLR state: last_epoch
    best_accuracy,  \* line 105
    score,          \* the value returned by valid(), line 113
    run,            \* number of the current run of the program (1 = first launch)
    hist            \* per-process observation log (not program state)

vars == <<args, env, disk, pc, start_epoch, writer, dir_missing, epoch, idx, tracker,
          model, optimizer, grad, scheduler, best_accuracy, score, run, hist>>

Procs == 0 .. env.world - 1

\* frostml.core.dist.is_main_process: rank 0 is the designated main process.
is_main_process(p) == p = 0

\* ------------------------------------------------------- collaborators

\* torch.optim.AdamW(model.parameters(), lr=args.lr): no step taken, lr = lr0.
NewOptimizer == [steps |-> 0, lr |-> 0]

\* StepLR(optimizer, step_size, gamma): the constructor's initial step leaves
\* last_epoch = 0 and the learning rate at lr0.
NewScheduler == [last_epoch |-> 0]

NewTracker == [sum |-> 0, count |-> 0]

\* EpochTracker.update(acc1=v)
TrackerUpdate(t, v) == [sum |-> t.sum + v, count |-> t.count + 1]

\* scheduler.step(): the chainable form of StepLR.get_lr, multiplying the current
\* learning rate by gamma when the new last_epoch is a multiple of step_size.
StepLrExp(lr, last, size) == IF last # 0 /\ last % size = 0 THEN lr + 1 ELSE lr

\* scheduler.step(epoch): last_epoch := epoch and the closed form
\* base_lr * gamma ** (last_epoch // step_size).
ClosedFormLrExp(last, size) == last \div size

CheckpointRecordNext(p) ==
    [keys |-> {"epoch", "model", "optimizer", "scheduler"},
     epoch |-> epoch[p] + 1, model |-> model[p], optimizer |-> optimizer[p],
     scheduler |-> scheduler[p], acc |-> score[p]]

\* The record of lines 116-121.  `acc` is not a field of the file: it remembers
\* the validation score of the epoch the record was built in.
CheckpointRecord(p) ==
    [keys |-> {"epoch", "model", "optimizer", "scheduler"},
     epoch |-> epoch[p], model |-> model[p], optimizer |-> optimizer[p],
     scheduler |-> scheduler[p], acc |-> score[p]]

\* Checkpoint files not written by this program: one of optimizer, scheduler,
\* epoch is missing (for example exported weights).
ExternalCheckpoints ==
    { [keys |-> {"model"} \cup k, epoch |-> e, model |-> 1,
       optimizer |-> [steps |-> 1, lr |-> 1], scheduler |-> [last_epoch |-> e + 1],
       acc |-> 0] :
      k \in (SUBSET {"optimizer", "scheduler", "epoch"}) \ {{"optimizer", "scheduler", "epoch"}},
      e \in {0} }

\* arrivals: the barriers entered; visited: the epochs begun; ops: the driver's
\* operations completed in the current epoch; scores: the value valid() returned
\* in each epoch; the numbers of file and telemetry writes issued; the exception
\* that ended the process and the position it was raised at; the operations of
\* the latest batch, in the order they ran; the step of the latest per-batch
\* telemetry write of the train and of the valid series (-1: none yet).
NewHist == [arrivals |-> << >>, visited |-> << >>, ops |-> << >>, scores |-> << >>,
            ckpt_writes |-> 0, best_writes |-> 0, tele_writes |-> 0, error |-> "none",
            at |-> "none", batch |-> << >>, train_step |-> -1, valid_step |-> -1]


\* ------------------------------------------------------------- start

InitProcesses ==
    /\ pc = [p \in Ranks |-> IF p < env.world THEN "start" ELSE "off"]
    /\ start_epoch = [p \in Ranks |-> args.start_epoch]
    /\ writer = [p \in Ranks |-> "unset"]
    /\ dir_missing = [p \in Ranks |-> FALSE]
    /\ epoch = [p \in Ranks |-> 0]
    /\ idx = [p \in Ranks |-> 0]
    /\ tracker = [p \in Ranks |-> NewTracker]
    /\ model = [p \in Ranks |-> 0]
    /\ optimizer = [p \in Ranks |-> NewOptimizer]
    /\ grad = [p \in Ranks |-> 0]
    /\ scheduler = [p \in Ranks |-> NewScheduler]
    /\ best_accuracy = [p \in Ranks |-> 0]
    /\ score = [p \in Ranks |-> 0]
    /\ hist = [p \in Ranks |-> NewHist]

\* A first launch of the program by NumProcs cooperating processes (or by one),
\* without --resume, on an empty or absent save directory.
Init ==
    /\ args \in [epochs : 0 .. MaxEpochs, start_epoch : 0 .. MaxStart, resume : {{}},
                 save_dir : BOOLEAN, tensorboard_dir : BOOLEAN,
                 step_size : {MaxStepSize}]
    /\ env \in [world : {1, NumProcs}, nTrain : 0 .. MaxBatches, nValid : 0 .. MaxBatches,
                zero_policy : {"zero", "raise"}]
    /\ env.zero_policy = "raise" => env.nTrain = 0 \/ env.nValid = 0
    /\ disk \in [dir : BOOLEAN, checkpoint : {{}}, best : {{}}]
    /\ disk.dir => args.save_dir
    /\ run = 1
    /\ InitProcesses

\* ----------------------------------------------------------- actions

Crash(p, err) ==
    /\ pc' = [pc EXCEPT ![p] = "crashed"]
    /\ hist' = [hist EXCEPT ![p].error = err, ![p].at = pc[p]]

HasAll(ck) == {"optimizer", "scheduler", "epoch"} \subseteq ck.keys

ResumeStartEpochStored(ck, given) == IF "epoch" \in ck.keys THEN ck.epoch + 1 ELSE given

\* Line 91 (and line 29 when the checkpoint is partial): the epoch to start at.
ResumeStartEpoch(ck, given) == IF HasAll(ck) THEN ck.epoch + 1 ELSE given

\* Lines 58-96 of main(): build the collaborators, resume, test the save directory.
Setup(p) ==
    /\ pc[p] = "start"
    /\ IF args.resume # {}
       THEN LET ck == CHOOSE r \in args.resume : TRUE
                se == ResumeStartEpoch(ck, start_epoch[p])
                opt == IF HasAll(ck) THEN ck.optimizer ELSE NewOptimizer
            IN  /\ model' = [model EXCEPT ![p] = ck.model]
                /\ start_epoch' = [start_epoch EXCEPT ![p] = se]
                /\ scheduler' = [scheduler EXCEPT ![p] = [last_epoch |-> se]]
                /\ optimizer' = [optimizer EXCEPT
                                   ![p] = [opt EXCEPT !.lr = ClosedFormLrExp(se, args.step_size)]]
       ELSE UNCHANGED <<model, start_epoch, scheduler, optimizer>>
    /\ dir_missing' = [dir_missing EXCEPT ![p] = args.save_dir /\ ~disk.dir]
    /\ pc' = [pc EXCEPT ![p] = "mkdir"]
    /\ UNCHANGED <<grad, args, env, disk, writer, epoch, idx, tracker, best_accuracy, score,
                   run, hist>>

MakeWriterEverywhere(p) == IF args.tensorboard_dir THEN "open" ELSE "unset"

\* Lines 99-103: the telemetry handle of a process.
MakeWriter(p) ==
    IF args.tensorboard_dir
    THEN IF is_main_process(p) THEN "open" ELSE "none"
    ELSE "unset"

\* Lines 97-105: create the save directory, open the writer, best_accuracy = 0.
MakeDirs(p) ==
    /\ pc[p] = "mkdir"
    /\ IF dir_missing[p] /\ disk.dir
       THEN /\ Crash(p, "FileExistsError")
            /\ UNCHANGED <<disk, writer, best_accuracy, epoch>>
       ELSE /\ disk' = [disk EXCEPT !.dir = disk.dir \/ dir_missing[p]]
            /\ writer' = [writer EXCEPT ![p] = MakeWriter(p)]
            /\ best_accuracy' = [best_accuracy EXCEPT ![p] = 0]
            /\ epoch' = [epoch EXCEPT ![p] = start_epoch[p]]
            /\ pc' = [pc EXCEPT ![p] = "loop"]
            /\ UNCHANGED hist
    /\ UNCHANGED <<grad, args, env, start_epoch, dir_missing, idx, tracker, model, optimizer,
                   scheduler, score, run>>

\* Line 108: the loop test, and the entry into train() (lines 164-168).
EpochLoop(p) ==
    /\ pc[p] = "loop"
    /\ IF epoch[p] < args.epochs
       THEN /\ pc' = [pc EXCEPT ![p] = "train"]
            /\ tracker' = [tracker EXCEPT ![p] = NewTracker]
            /\ idx' = [idx EXCEPT ![p] = 0]
            /\ hist' = [hist EXCEPT ![p].visited = Append(@, epoch[p]), ![p].ops = << >>]
       ELSE /\ pc' = [pc EXCEPT ![p] = "done"]
            /\ UNCHANGED <<tracker, idx, hist>>
    /\ UNCHANGED <<grad, args, env, disk, start_epoch, writer, dir_missing, epoch, model,
                   optimizer, scheduler, best_accuracy, score, run>>

\* `if args.writer:` (lines 189, 199, 228, 238): args.writer exists only when
\* --tensorboard-dir was given; reading it otherwise raises AttributeError.
WriterRaises(p) == writer[p] = "unset"

GlobalStepOfBatch(e, len, i) == i

\* Lines 190 and 229: global_steps = epoch * len(dataloader) + idx.
GlobalStep(e, len, i) == e * len + i

\* The add_scalar calls of one `if args.writer:` block.
Telemetry(p) == IF writer[p] = "open" THEN 3 ELSE 0

\* What the operations of one batch work on: the parameters, the optimizer's step
\* count, the accumulated gradient, and the operations run so far.
BatchState(p) == [model |-> model[p], steps |-> optimizer[p].steps, grad |-> grad[p],
                  log |-> << >>]

\* outputs = model(inputs)
Forward(st) == [st EXCEPT !.log = Append(@, "forward")]

\* loss = criterion(outputs, targets)
ComputeLoss(st) == [st EXCEPT !.log = Append(@, "loss")]

\* acc1, acc5 = evaluator(outputs, targets)
ComputeMetrics(st) == [st EXCEPT !.log = Append(@, "metrics")]

\* optimizer.zero_grad(set_to_none=True)
ZeroGrad(st) == [st EXCEPT !.grad = 0, !.log = Append(@, "zero_grad")]

\* loss.backward(): gradients accumulate onto whatever is there.
Backward(st) == [st EXCEPT !.grad = @ + 1, !.log = Append(@, "backward")]

\* optimizer.step(): applies the accumulated gradient; nothing to apply without one.
OptimizerStep(st) ==
    [st EXCEPT !.model = @ + st.grad,
               !.steps = IF st.grad > 0 THEN @ + 1 ELSE @,
               !.log = Append(@, "step")]

\* tracker.update(...) for loss, acc1, acc5
Record(st) == [st EXCEPT !.log = Append(@, "record")]

ZeroGradFirst(st) ==
    Record(OptimizerStep(Backward(ComputeMetrics(ComputeLoss(Forward(ZeroGrad(st)))))))

\* Lines 174-186: the operations of one train batch, in the order of the code.
TrainOneBatch(st) ==
    Record(OptimizerStep(Backward(ZeroGrad(ComputeMetrics(ComputeLoss(Forward(st)))))))

ValidWithStep(st) == Record(OptimizerStep(Backward(ComputeMetrics(ComputeLoss(Forward(st))))))

\* Lines 217-225: the operations of one valid batch (under torch.no_grad()).
ValidOneBatch(st) == Record(ComputeMetrics(ComputeLoss(Forward(st))))

\* Lines 170-193: one batch of train().
TrainBatch(p) ==
    /\ pc[p] = "train"
    /\ idx[p] < env.nTrain
    /\ \E v \in AccValues :
          tracker' = [tracker EXCEPT ![p] = TrackerUpdate(@, v)]
    /\ LET st == TrainOneBatch(BatchState(p))
       IN  /\ model' = [model EXCEPT ![p] = st.model]
           /\ optimizer' = [optimizer EXCEPT ![p].steps = st.steps]
           /\ grad' = [grad EXCEPT ![p] = st.grad]
           /\ IF WriterRaises(p)
              THEN /\ pc' = [pc EXCEPT ![p] = "crashed"]
                   /\ hist' = [hist EXCEPT ![p].error = "AttributeError", ![p].at = pc[p],
                                           ![p].batch = st.log]
                   /\ UNCHANGED idx
              ELSE /\ idx' = [idx EXCEPT ![p] = @ + 1]
                   /\ hist' = [hist EXCEPT ![p].tele_writes = @ + Telemetry(p),
                                           ![p].batch = st.log,
                                           ![p].train_step =
                                              IF writer[p] = "open"
                                              THEN GlobalStep(epoch[p], env.nTrain, idx[p])
                                              ELSE @]
                   /\ UNCHANGED pc
    /\ UNCHANGED <<args, env, disk, start_epoch, writer, dir_missing, epoch, scheduler,
                   best_accuracy, score, run>>

ArriveSkipSync(p) ==
    /\ \/ pc[p] = "train" /\ idx[p] = env.nTrain
       \/ pc[p] = "valid" /\ idx[p] = env.nValid
    /\ pc' = [pc EXCEPT ![p] = IF pc[p] = "train" THEN "train_end" ELSE "valid_end"]
    /\ hist' = [hist EXCEPT ![p].arrivals = Append(@, pc[p])]
    /\ UNCHANGED <<grad, args, env, disk, start_epoch, writer, dir_missing, epoch, idx, tracker,
                   model, optimizer, scheduler, best_accuracy, score, run>>

\* Lines 195-196 and 234-235: the pass is over, enter synchronize_between_processes().
Arrive(p) ==
    /\ \/ pc[p] = "train" /\ idx[p] = env.nTrain
       \/ pc[p] = "valid" /\ idx[p] = env.nValid
    /\ pc' = [pc EXCEPT ![p] = IF pc[p] = "train" THEN "train_sync" ELSE "valid_sync"]
    /\ hist' = [hist EXCEPT ![p].arrivals = Append(@, pc[p])]
    /\ UNCHANGED <<grad, args, env, disk, start_epoch, writer, dir_missing, epoch, idx, tracker,
                   model, optimizer, scheduler, best_accuracy, score, run>>

RECURSIVE SumOver(_, _)
SumOver(f, S) == IF S = {} THEN 0
                 ELSE LET x == CHOOSE y \in S : TRUE IN f[x] + SumOver(f, S \ {x})

\* EpochTracker.synchronize_between_processes(): the all-reduce (sum) of every
\* accumulator's (running_sum, running_count); it completes once every process
\* of the group has entered it.
AllReduce ==
    /\ \A p \in Procs : pc[p] \in {"train_sync", "valid_sync"}
    /\ LET total == [sum |-> SumOver([p \in Procs |-> tracker[p].sum], Procs),
                     count |-> SumOver([p \in Procs |-> tracker[p].count], Procs)]
       IN  tracker' = [p \in Ranks |-> IF p \in Procs THEN total ELSE tracker[p]]
    /\ pc' = [p \in Ranks |-> IF pc[p] = "train_sync" THEN "train_end"
                              ELSE IF pc[p] = "valid_sync" THEN "valid_end" ELSE pc[p]]
    /\ UNCHANGED <<grad, args, env, disk, start_epoch, writer, dir_missing, epoch, idx, model,
                   optimizer, scheduler, best_accuracy, score, run, hist>>

\* MetricAccumulator.global_average: sum / count over all processes (scaled).
\* With no observation the result is 0 under the "zero" policy.
GlobalAverage(t) == IF t.count = 0 THEN 0 ELSE (t.sum * Scale) \div t.count

\* Reading trackers[name].global_average after a pass without observations, under
\* the "raise" policy.  summarize() reads no accumulator then: update() creates
\* them, and none was created.
ReadRaises(p) == tracker[p].count = 0 /\ env.zero_policy = "raise"

\* Lines 197-203: summary and per-epoch telemetry of train() (the averages are
\* read only by a process with an open writer), then the entry into valid()
\* (lines 207-211).
TrainEnd(p) ==
    /\ pc[p] = "train_end"
    /\ IF WriterRaises(p)
       THEN Crash(p, "AttributeError") /\ UNCHANGED <<tracker, idx>>
       ELSE IF writer[p] = "open" /\ ReadRaises(p)
       THEN Crash(p, "NoObservationError") /\ UNCHANGED <<tracker, idx>>
       ELSE /\ pc' = [pc EXCEPT ![p] = "valid"]
            /\ tracker' = [tracker EXCEPT ![p] = NewTracker]
            /\ idx' = [idx EXCEPT ![p] = 0]
            /\ hist' = [hist EXCEPT ![p].tele_writes = @ + Telemetry(p),
                                    ![p].ops = Append(@, "train")]
    /\ UNCHANGED <<grad, args, env, disk, start_epoch, writer, dir_missing, epoch, model,
                   optimizer, scheduler, best_accuracy, score, run>>

\* Lines 213-232: one batch of valid().
ValidBatch(p) ==
    /\ pc[p] = "valid"
    /\ idx[p] < env.nValid
    /\ \E v \in AccValues :
          tracker' = [tracker EXCEPT ![p] = TrackerUpdate(@, v)]
    /\ LET st == ValidOneBatch(BatchState(p))
       IN  /\ model' = [model EXCEPT ![p] = st.model]
           /\ optimizer' = [optimizer EXCEPT ![p].steps = st.steps]
           /\ grad' = [grad EXCEPT ![p] = st.grad]
           /\ IF WriterRaises(p)
              THEN /\ pc' = [pc EXCEPT ![p] = "crashed"]
                   /\ hist' = [hist EXCEPT ![p].error = "AttributeError", ![p].at = pc[p],
                                           ![p].batch = st.log]
                   /\ UNCHANGED idx
              ELSE /\ idx' = [idx EXCEPT ![p] = @ + 1]
                   /\ hist' = [hist EXCEPT ![p].tele_writes = @ + Telemetry(p),
                                           ![p].batch = st.log,
                                           ![p].valid_step =
                                              IF writer[p] = "open"
                                              THEN GlobalStep(epoch[p], env.nValid, idx[p])
                                              ELSE @]
                   /\ UNCHANGED pc
    /\ UNCHANGED <<args, env, disk, start_epoch, writer, dir_missing, epoch, scheduler,
                   best_accuracy, score, run>>

\* Lines 236-244: summary and per-epoch telemetry of valid(), and its result
\* (line 244 reads the average in every process).
ValidEnd(p) ==
    /\ pc[p] = "valid_end"
    /\ IF WriterRaises(p)
       THEN Crash(p, "AttributeError") /\ UNCHANGED score
       ELSE IF ReadRaises(p)
       THEN Crash(p, "NoObservationError") /\ UNCHANGED score
       ELSE /\ pc' = [pc EXCEPT ![p] = "sched"]
            /\ score' = [score EXCEPT ![p] = GlobalAverage(tracker[p])]
            /\ hist' = [hist EXCEPT ![p].tele_writes = @ + Telemetry(p),
                                    ![p].ops = Append(@, "valid"),
                                    ![p].scores = Append(@, GlobalAverage(tracker[p]))]
    /\ UNCHANGED <<grad, args, env, disk, start_epoch, writer, dir_missing, epoch, idx, tracker,
                   model, optimizer, scheduler, best_accuracy, run>>

\* Line 114: scheduler.step().
SchedulerStep(p) ==
    /\ pc[p] = "sched"
    /\ scheduler' = [scheduler EXCEPT ![p].last_epoch = @ + 1]
    /\ optimizer' = [optimizer EXCEPT
                       ![p].lr = StepLrExp(@, scheduler[p].last_epoch + 1, args.step_size)]
    /\ hist' = [hist EXCEPT ![p].ops = Append(@, "step")]
    /\ pc' = [pc EXCEPT ![p] = "save"]
    /\ UNCHANGED <<grad, args, env, disk, start_epoch, writer, dir_missing, epoch, idx, tracker,
                   model, best_accuracy, score, run>>

\* frostml.core.dist.save_on_main_process(record, path): torch.save on the main
\* process, nothing on the others.
save_on_main_process(p, rec, file) ==
    IF is_main_process(p)
    THEN [disk |-> [disk EXCEPT ![file] = {rec}], wrote |-> 1]
    ELSE [disk |-> disk, wrote |-> 0]

SaveCallDirect(p, rec, file) == [disk |-> [disk EXCEPT ![file] = {rec}], wrote |-> 1]

\* Lines 124 and 129: how main() writes a checkpoint file.
SaveCall(p, rec, file) == save_on_main_process(p, rec, file)

\* Lines 123-124: the rolling checkpoint.
SaveCheckpoint(p) ==
    /\ pc[p] = "save"
    /\ LET r == IF args.save_dir THEN SaveCall(p, CheckpointRecord(p), "checkpoint")
                ELSE [disk |-> disk, wrote |-> 0]
       IN  /\ disk' = r.disk
           /\ hist' = [hist EXCEPT ![p].ckpt_writes = @ + r.wrote,
                                   ![p].ops = Append(@, "checkpoint")]
    /\ pc' = [pc EXCEPT ![p] = "best"]
    /\ UNCHANGED <<grad, args, env, start_epoch, writer, dir_missing, epoch, idx, tracker,
                   model, optimizer, scheduler, best_accuracy, score, run>>

ImprovedOrEqual(best, s) == best <= s

ImprovedAlways(best, s) == TRUE

\* Line 126: `best_accuracy < score`.
Improved(best, s) == best < s

NextEpochSkip(e) == e + 2

\* Line 108: the next value of range(args.start_epoch, args.epochs).
NextEpoch(e) == e + 1

\* Lines 126-129: the best checkpoint, then the next iteration.
SaveBest(p) ==
    /\ pc[p] = "best"
    /\ LET better == Improved(best_accuracy[p], score[p])
           r == IF better /\ args.save_dir THEN SaveCall(p, CheckpointRecord(p), "best")
                ELSE [disk |-> disk, wrote |-> 0]
       IN  /\ best_accuracy' = [best_accuracy EXCEPT ![p] = IF better THEN score[p] ELSE @]
           /\ disk' = r.disk
           /\ hist' = [hist EXCEPT ![p].best_writes = @ + r.wrote,
                                   ![p].ops = Append(@, "best")]
    /\ epoch' = [epoch EXCEPT ![p] = NextEpoch(@)]
    /\ pc' = [pc EXCEPT ![p] = "loop"]
    /\ UNCHANGED <<grad, args, env, start_epoch, writer, dir_missing, idx, tracker, model,
                   optimizer, scheduler, score, run>>

Next ==
    \/ AllReduce
    \/ \E p \in Procs : Setup(p)
    \/ \E p \in Procs : MakeDirs(p)
    \/ \E p \in Procs : EpochLoop(p)
    \/ \E p \in Procs : TrainBatch(p)
    \/ \E p \in Procs : ValidBatch(p)
    \/ \E p \in Procs : Arrive(p)
    \/ \E p \in Procs : TrainEnd(p)
    \/ \E p \in Procs : ValidEnd(p)
    \/ \E p \in Procs : SchedulerStep(p)
    \/ \E p \in Procs : SaveCheckpoint(p)
    \/ \E p \in Procs : SaveBest(p)

Spec == Init /\ [][Next]_vars

ProcStep(p) ==
    \/ Setup(p)
    \/ MakeDirs(p)
    \/ EpochLoop(p)
    \/ TrainBatch(p)
    \/ ValidBatch(p)
    \/ Arrive(p)
    \/ TrainEnd(p)
    \/ ValidEnd(p)
    \/ SchedulerStep(p)
    \/ SaveCheckpoint(p)
    \/ SaveBest(p)

\* Every process is an operating-system process of its own and keeps running;
\* the collective completes once every member has entered it.
FairSpec == Spec /\ WF_vars(AllReduce) /\ \A p \in Ranks : WF_vars(ProcStep(p))

\* ------------------------------------------------- restarts and resume

RunOver == \A p \in Procs : pc[p] \in {"done", "crashed"}

\* What --resume may name at a launch: nothing, one of the two files the program
\* wrote into the save directory, or a checkpoint that lacks some field.
ResumeChoices ==
    {{}} \cup ({disk.checkpoint, disk.best} \ {{}}) \cup {{r} : r \in ExternalCheckpoints}

\* The program is launched again on the same save directory once the previous
\* run is over, with a new --epochs, --start-epoch and --resume.
Restart ==
    /\ RunOver
    /\ run < MaxRuns
    /\ run' = run + 1
    /\ \E e \in args.epochs .. MaxEpochs, s \in 0 .. MaxStart, r \in ResumeChoices :
          args' = [args EXCEPT !.epochs = e, !.start_epoch = s, !.resume = r]
    /\ pc' = [p \in Ranks |-> IF p < env.world THEN "start" ELSE "off"]
    /\ start_epoch' = [p \in Ranks |-> args'.start_epoch]
    /\ writer' = [p \in Ranks |-> "unset"]
    /\ dir_missing' = [p \in Ranks |-> FALSE]
    /\ epoch' = [p \in Ranks |-> 0]
    /\ idx' = [p \in Ranks |-> 0]
    /\ tracker' = [p \in Ranks |-> NewTracker]
    /\ model' = [p \in Ranks |-> 0]
    /\ optimizer' = [p \in Ranks |-> NewOptimizer]
    /\ grad' = [p \in Ranks |-> 0]
    /\ scheduler' = [p \in Ranks |-> NewScheduler]
    /\ best_accuracy' = [p \in Ranks |-> 0]
    /\ score' = [p \in Ranks |-> 0]
    /\ hist' = [p \in Ranks |-> NewHist]
    /\ UNCHANGED <<env, disk>>

\* A single-process launch, possibly with --resume naming a partial checkpoint.
InitResume ==
    /\ args \in [epochs : 0 .. MaxEpochs, start_epoch : 0 .. MaxStart,
                 resume : {{}} \cup {{r} : r \in ExternalCheckpoints},
                 save_dir : BOOLEAN, tensorboard_dir : BOOLEAN,
                 step_size : 1 .. MaxStepSize]
    /\ env \in [world : {1}, nTrain : 0 .. MaxBatches, nValid : 0 .. MaxBatches,
                zero_policy : {"zero", "raise"}]
    /\ env.zero_policy = "raise" => env.nTrain = 0 \/ env.nValid = 0
    /\ disk \in [dir : BOOLEAN, checkpoint : {{}}, best : {{}}]
    /\ disk.dir => args.save_dir
    /\ run = 1
    /\ InitProcesses

NextResume == Next \/ Restart

SpecResume == InitResume /\ [][NextResume]_vars

\* ------------------------------------------------------------ claims

Syncs == {"train_sync", "valid_sync"}

\* The number of barriers a process has entered by the time it is at `at`,
\* having begun n epochs.
ArrivalsDue(at, n) ==
    IF n = 0 THEN 0
    ELSE IF at = "train" THEN 2 * (n - 1)
    ELSE IF at \in {"train_sync", "train_end", "valid"} THEN 2 * (n - 1) + 1
    ELSE 2 * n

BarrierKind(i) == IF i % 2 = 1 THEN "train" ELSE "valid"

\* The barriers of a process come in the order train, valid, train, ...; a live
\* process has entered as many as its position in the loop calls for; processes
\* waiting together wait at the same barrier of the same epoch.
C1_BarrierOrder ==
    \A p \in Procs :
       /\ \A i \in 1 .. Len(hist[p].arrivals) : hist[p].arrivals[i] = BarrierKind(i)
       /\ pc[p] # "crashed" =>
             Len(hist[p].arrivals) = ArrivalsDue(pc[p], Len(hist[p].visited))
       /\ \A q \in Procs :
             pc[p] \in Syncs /\ pc[q] \in Syncs =>
                /\ pc[p] = pc[q]
                /\ epoch[p] = epoch[q]
                /\ Len(hist[p].arrivals) = Len(hist[q].arrivals)

\* C1: every process enters the metric-reduction barrier exactly twice per epoch,
\* at the end of the train pass and then at the end of the valid pass; processes
\* that meet at a barrier are at the same barrier of the same epoch, having
\* entered equally many; and no process is left waiting forever at a barrier.
C1_Barriers ==
    /\ []C1_BarrierOrder
    /\ \A p \in Ranks : (pc[p] \in Syncs) ~> (pc[p] \notin Syncs)

\* C2: with a save directory, no process other than the main process ever writes
\* checkpoint.pth or best_checkpoint.pth, and whatever the files hold was
\* written by the main process.
C2_OnlyMainWrites ==
    /\ \A p \in Procs :
          ~is_main_process(p) => hist[p].ckpt_writes = 0 /\ hist[p].best_writes = 0
    /\ disk.checkpoint # {} => hist[0].ckpt_writes > 0
    /\ disk.best # {} => hist[0].best_writes > 0

C2_Witness ==
    /\ env.world = NumProcs
    /\ args.save_dir
    /\ \A p \in Procs : pc[p] = "done" /\ Len(hist[p].visited) >= 2
    /\ hist[0].ckpt_writes >= 2 /\ hist[0].best_writes >= 1
    /\ hist[1].ckpt_writes = 0 /\ hist[1].best_writes = 0

DriverOrder == <<"train", "valid", "step", "checkpoint", "best">>

\* The operations of the current epoch that precede position `at` of the loop body.
OpsDue(at) ==
    IF at \in {"train", "train_sync", "train_end"} THEN 0
    ELSE IF at \in {"valid", "valid_sync", "valid_end"} THEN 1
    ELSE IF at = "sched" THEN 2
    ELSE IF at = "save" THEN 3
    ELSE IF at = "best" THEN 4
    ELSE 5

\* The epochs in which a process got as far as the k-th operation of DriverOrder.
EpochsThrough(p, k) ==
    IF Len(hist[p].visited) = 0 THEN 0
    ELSE IF Len(hist[p].ops) >= k THEN Len(hist[p].visited)
    ELSE Len(hist[p].visited) - 1

\* C3: the epochs visited are start_epoch, start_epoch + 1, ... below the epoch
\* count, in that order; within an epoch the driver completes train, valid and the
\* scheduler step in that order, once each, and only then writes checkpoints: the
\* scheduler has stepped once per epoch begun before, and a file is written at
\* most once per epoch that completed its scheduler step.
C3_EpochOrder ==
    \A p \in Procs :
       /\ \A i \in 1 .. Len(hist[p].visited) :
             /\ hist[p].visited[i] = start_epoch[p] + i - 1
             /\ hist[p].visited[i] < args.epochs
       /\ Len(hist[p].ops) <= 5
       /\ \A i \in 1 .. Len(hist[p].ops) : hist[p].ops[i] = DriverOrder[i]
       /\ pc[p] \notin {"start", "mkdir", "loop", "done", "crashed", "off"} =>
             /\ Len(hist[p].ops) = OpsDue(pc[p])
             /\ epoch[p] = hist[p].visited[Len(hist[p].visited)]
       /\ pc[p] \in {"loop", "done"} /\ Len(hist[p].visited) > 0 =>
             /\ Len(hist[p].ops) = 5
             /\ epoch[p] = hist[p].visited[Len(hist[p].visited)] + 1
       /\ args.resume = {} /\ pc[p] \notin {"start", "mkdir"} =>
             scheduler[p].last_epoch = EpochsThrough(p, 3)
       /\ hist[p].ckpt_writes <= EpochsThrough(p, 4)
       /\ hist[p].best_writes <= EpochsThrough(p, 5)
       /\ is_main_process(p) /\ args.save_dir => hist[p].ckpt_writes = EpochsThrough(p, 4)

C3_Witness ==
    /\ args.save_dir
    /\ pc[0] = "done"
    /\ hist[0].visited = <<1, 2>>
    /\ hist[0].ops = DriverOrder
    /\ hist[0].ckpt_writes = 2

\* The checkpoint named by --resume.
Resumed == CHOOSE r \in args.resume : TRUE

\* The process has finished start-up and not yet begun its first epoch.
AtFirstEpoch(p) == pc[p] = "loop" /\ Len(hist[p].visited) = 0

\* C4: a run resumed from a checkpoint written after epoch E begins epoch E + 1
\* in the state the writing run was in when it built the record (the state in
\* which that run, uninterrupted, begins epoch E + 1): same model, optimizer
\* (steps and learning rate) and scheduler.
C4_ResumeIdempotent ==
    \A p \in Procs :
       args.resume # {} /\ HasAll(Resumed) /\ AtFirstEpoch(p) =>
          /\ epoch[p] = Resumed.epoch + 1
          /\ model[p] = Resumed.model
          /\ optimizer[p] = Resumed.optimizer
          /\ scheduler[p] = Resumed.scheduler

\* C5 as stated: with a partial checkpoint training starts at epoch 0 with fresh
\* optimizer and scheduler state, never at the stored epoch + 1.
C5_PartialStartsAtZero ==
    \A p \in Procs :
       args.resume # {} /\ ~HasAll(Resumed) /\ AtFirstEpoch(p) =>
          /\ epoch[p] = 0
          /\ optimizer[p] = NewOptimizer
          /\ scheduler[p] = NewScheduler
          /\ "epoch" \in Resumed.keys => epoch[p] # Resumed.epoch + 1

\* C5 (amended): with a checkpoint that lacks the optimizer, scheduler or epoch
\* field, training starts at the epoch given by --start-epoch (0 by default) with
\* the checkpoint's weights, an optimizer that has taken no step and a scheduler
\* fast-forwarded to that epoch; nothing else of the checkpoint is used, so with
\* --start-epoch left at 0 the optimizer and scheduler are fresh.
C5_PartialStartsAtGiven ==
    \A p \in Procs :
       args.resume # {} /\ ~HasAll(Resumed) /\ AtFirstEpoch(p) =>
          /\ epoch[p] = args.start_epoch
          /\ model[p] = Resumed.model
          /\ optimizer[p] = [steps |-> 0, lr |-> args.start_epoch \div args.step_size]
          /\ scheduler[p] = [last_epoch |-> args.start_epoch]
          /\ args.start_epoch = 0 =>
                optimizer[p] = NewOptimizer /\ scheduler[p] = NewScheduler

C5_Witness ==
    /\ args.resume # {}
    /\ Resumed.keys = {"model", "epoch", "optimizer"}
    /\ args.start_epoch = 1
    /\ pc[0] = "train"
    /\ hist[0].visited = <<1>>
    /\ Resumed.epoch + 1 = 1

RECURSIVE MaxOf(_)
MaxOf(q) == IF Len(q) = 0 THEN 0
            ELSE LET m == MaxOf(Tail(q)) IN IF Head(q) >= m THEN Head(q) ELSE m

\* The first position of q holding its greatest element.
FirstArgmax(q) == CHOOSE i \in 1 .. Len(q) :
                     /\ q[i] = MaxOf(q)
                     /\ \A j \in 1 .. i - 1 : q[j] < q[i]

\* A run with a save directory whose main process completed every epoch of a
\* non-empty range.
FullRun == /\ args.save_dir
           /\ pc[0] = "done"
           /\ Len(hist[0].scores) > 0

\* C6 as stated: after a full run (whose validation passes saw at least one
\* batch) best_checkpoint.pth holds the record of an epoch that maximises the
\* validation score.
C6_BestIsArgmax ==
    FullRun /\ env.nValid > 0 =>
       /\ disk.best # {}
       /\ \A r \in disk.best :
             /\ r.epoch \in start_epoch[0] .. args.epochs - 1
             /\ hist[0].scores[r.epoch - start_epoch[0] + 1] = MaxOf(hist[0].scores)

\* C6 (amended): after a full run started on a save directory without
\* best_checkpoint.pth, if some validation score is greater than 0 the file holds
\* the record of the first epoch that attains the greatest score; if no score is
\* greater than 0 the run never writes the file.
C6_BestIsFirstArgmaxAboveZero ==
    FullRun =>
       IF MaxOf(hist[0].scores) > 0
       THEN /\ disk.best # {}
            /\ \A r \in disk.best :
                  /\ r.epoch = start_epoch[0] + FirstArgmax(hist[0].scores) - 1
                  /\ r.acc = MaxOf(hist[0].scores)
                  /\ r.scheduler.last_epoch = scheduler[0].last_epoch - (epoch[0] - 1 - r.epoch)
       ELSE disk.best = {} /\ hist[0].best_writes = 0

C6_Witness ==
    /\ FullRun
    /\ env.world = NumProcs
    /\ Len(hist[0].scores) = 3
    /\ hist[0].scores[1] < hist[0].scores[2]
    /\ hist[0].scores[2] = hist[0].scores[3]
    /\ \A r \in disk.best : r.epoch = 1
    /\ disk.best # {}

\* C7: best_checkpoint.pth is written (its content replaced, a write counted)
\* only by a process whose validation score of the epoch is strictly greater than
\* its best score so far; a score equal to or below it writes nothing.
C7_WriteOnlyOnStrictImprovement ==
    [][ /\ \A p \in Procs :
              hist'[p].best_writes # hist[p].best_writes =>
                 /\ pc[p] = "best"
                 /\ best_accuracy[p] < score[p]
                 /\ score[p] = hist[p].scores[Len(hist[p].scores)]
                 /\ \A i \in 1 .. Len(hist[p].scores) - 1 : hist[p].scores[i] < score[p]
        /\ disk'.best # disk.best =>
              \E p \in Procs : pc[p] = "best" /\ pc'[p] = "loop" /\ best_accuracy[p] < score[p]
      ]_vars

\* An epoch whose score equalled the best so far (greater than 0) went by without
\* a write.
C7_Witness ==
    /\ args.save_dir
    /\ pc[0] = "loop"
    /\ Len(hist[0].scores) = 2
    /\ hist[0].scores[1] > 0
    /\ hist[0].scores[2] = hist[0].scores[1]
    /\ hist[0].best_writes = 1
    /\ hist[0].ckpt_writes = 2

\* C8: no write to best_checkpoint.pth replaces a record by one of lower
\* validation accuracy, across epochs and restarts on the same save directory.
C8_BestNeverDecreases ==
    [][\A old \in disk.best : \A new \in disk'.best : old.acc <= new.acc]_vars

\* C9: without a telemetry directory no process attempts a telemetry write and
\* none ends a train or valid pass with an error raised by the telemetry code.
C9_NoTelemetryNoError ==
    \A p \in Procs :
       ~args.tensorboard_dir =>
          hist[p].tele_writes = 0 /\ hist[p].error # "AttributeError"

\* C10: with telemetry configured, a process other than the main process holds
\* no open writer and issues no telemetry write, in train or in valid, per batch
\* or per epoch.
C10_OnlyMainTelemetry ==
    \A p \in Procs :
       ~is_main_process(p) => writer[p] # "open" /\ hist[p].tele_writes = 0

C10_Witness ==
    /\ args.tensorboard_dir
    /\ env.world = NumProcs
    /\ env.nTrain > 0 /\ env.nValid > 0
    /\ pc[1] = "done" /\ Len(hist[1].visited) >= 1
    /\ hist[1].tele_writes = 0
    /\ hist[0].tele_writes >= 3 * (env.nTrain + env.nValid + 2)

\* C11: a train or valid pass whose pipeline yields zero batches does not crash:
\* no process ends such a pass with an exception raised after its reduction and
\* summary, and a valid pass without batches returns the accuracy the
\* zero-observation policy defines (0).
C11_ZeroBatchPassCompletes ==
    \A p \in Procs :
       /\ env.nTrain = 0 => hist[p].at # "train_end"
       /\ env.nValid = 0 => hist[p].at # "valid_end"
       /\ env.nValid = 0 /\ pc[p] = "sched" => score[p] = 0

ValidPositions == {"valid", "valid_sync", "valid_end"}

\* The operations recorded in a batch log.
OpsOf(log) == {log[i] : i \in 1 .. Len(log)}

\* C12: no step of a valid pass changes the model parameters, the gradient state
\* or the optimizer state; a valid batch runs no zero-grad, backward or optimizer
\* step; and within a run parameters, gradients and the optimizer's step count
\* change only in a train pass.
C12_ValidLeavesStateAlone ==
    [][\A p \in Procs :
          /\ pc[p] \in ValidPositions =>
                /\ model'[p] = model[p]
                /\ optimizer'[p] = optimizer[p]
                /\ grad'[p] = grad[p]
          /\ pc[p] = "valid" /\ tracker'[p].count = tracker[p].count + 1 =>
                OpsOf(hist'[p].batch) \cap {"zero_grad", "backward", "step"} = {}
          /\ (\/ model'[p] # model[p]
              \/ grad'[p] # grad[p]
              \/ optimizer'[p].steps # optimizer[p].steps) => pc[p] = "train"
      ]_vars

C12_Witness ==
    /\ pc[0] = "valid_end"
    /\ env.nTrain > 0
    /\ env.nValid = MaxBatches
    /\ hist[0].visited = <<0>>
    /\ hist[0].batch = <<"forward", "loss", "metrics", "record">>
    /\ model[0] = env.nTrain
    /\ optimizer[0].steps = env.nTrain
    /\ grad[0] = 1

\* The epoch count is not greater than the epoch process p starts at.
EmptyRange(p) == args.epochs <= start_epoch[p]

\* C13: when the epoch count is not greater than the start epoch, a process of
\* the driver begins no epoch, runs no train pass, valid pass or scheduler step,
\* enters no barrier, writes no checkpoint file, raises nothing, and terminates.
C13_EmptyLoopTerminates ==
    /\ [](\A p \in Procs :
             EmptyRange(p) =>
                /\ hist[p].visited = << >>
                /\ hist[p].ops = << >>
                /\ hist[p].arrivals = << >>
                /\ hist[p].ckpt_writes = 0 /\ hist[p].best_writes = 0
                /\ model[p] = 0 /\ grad[p] = 0
                /\ args.resume = {} => scheduler[p] = NewScheduler
                /\ pc[p] # "crashed")
    /\ \A p \in Ranks : (p \in Procs /\ EmptyRange(p)) ~> (pc[p] = "done")

\* C14: the summary and every read of a global average come after the reduction:
\* a process past the barrier of a pass holds the observations of all processes
\* (their count, and the sums the reduction added up); the score valid() returns
\* is read there and is the mean over all of them, the same in every process.
C14_ReductionBeforeRead ==
    /\ [](\A p \in Procs :
             /\ pc[p] = "train_end" => tracker[p].count = env.world * env.nTrain
             /\ pc[p] = "valid_end" => tracker[p].count = env.world * env.nValid
             /\ \A q \in Procs :
                   \A i \in 1 .. Len(hist[p].scores) :
                      i <= Len(hist[q].scores) => hist[p].scores[i] = hist[q].scores[i])
    /\ [][\A p \in Procs :
             /\ pc[p] \in Syncs /\ pc'[p] \notin Syncs =>
                   /\ tracker'[p].sum = SumOver([q \in Procs |-> tracker[q].sum], Procs)
                   /\ tracker'[p].count = SumOver([q \in Procs |-> tracker[q].count], Procs)
                   /\ \A q \in Procs : pc[q] \in Syncs
             /\ Len(hist'[p].ops) > Len(hist[p].ops) /\ pc[p] \in {"train_end", "valid_end"} =>
                   tracker[p].count = env.world * (IF pc[p] = "train_end" THEN env.nTrain
                                                   ELSE env.nValid)
             /\ Len(hist'[p].scores) > Len(hist[p].scores) =>
                   /\ pc[p] = "valid_end"
                   /\ score'[p] = hist'[p].scores[Len(hist'[p].scores)]
                   /\ tracker[p].count > 0 =>
                         score'[p] * tracker[p].count = tracker[p].sum * Scale
          ]_vars

\* Two processes returned the same score, a mean that no single process's own
\* observations can produce (one hit among the batches of all processes).
C14_Witness ==
    /\ env.world = NumProcs
    /\ env.nValid = MaxBatches
    /\ \A p \in Procs : pc[p] = "sched" /\ score[p] = Scale \div (NumProcs * MaxBatches)

\* A step of process p that runs one train batch.
TrainBatchStep(p) == pc[p] = "train" /\ tracker'[p].count = tracker[p].count + 1

\* C15 as stated: every train batch runs zero gradients, forward, compute loss,
\* compute metrics, backward, optimizer step, record metrics, in this order.
C15_ZeroGradThenForward ==
    [][\A p \in Procs :
          TrainBatchStep(p) =>
             hist'[p].batch = <<"zero_grad", "forward", "loss", "metrics", "backward",
                                "step", "record">>
      ]_vars

\* C15 (amended): every train batch runs forward, compute loss, compute metrics,
\* zero gradients, backward, optimizer step, record metrics, in this order; the
\* step applies the gradient of this batch alone.
C15_ForwardThenZeroGrad ==
    [][\A p \in Procs :
          TrainBatchStep(p) =>
             /\ hist'[p].batch = <<"forward", "loss", "metrics", "zero_grad", "backward",
                                   "step", "record">>
             /\ grad'[p] = 1
             /\ model'[p] = model[p] + 1
             /\ optimizer'[p].steps = optimizer[p].steps + 1
      ]_vars

C15_Witness ==
    /\ pc[0] = "train_sync"
    /\ env.nTrain = MaxBatches
    /\ hist[0].visited = <<0, 1>>
    /\ model[0] = 2 * MaxBatches
    /\ Len(hist[0].batch) = 7
    /\ hist[0].batch[4] = "zero_grad"

\* C16: with a save directory, once the main process has passed the rolling save
\* of an epoch and until it passes the next one, checkpoint.pth holds exactly the
\* record built in that epoch (its epoch field is that epoch, its contents the
\* state after that epoch's scheduler step), and the file has been written once
\* per such epoch.
C16_RollingHoldsLatest ==
    args.save_dir =>
       LET n == EpochsThrough(0, 4)
       IN  /\ hist[0].ckpt_writes = n
           /\ n = 0 => disk.checkpoint = {}
           /\ n > 0 =>
                 /\ Cardinality(disk.checkpoint) = 1
                 /\ \A r \in disk.checkpoint :
                       /\ r.keys = {"epoch", "model", "optimizer", "scheduler"}
                       /\ r.epoch = hist[0].visited[n]
                       /\ r.epoch = start_epoch[0] + n - 1
                       /\ r.model = n * env.nTrain
                       /\ r.optimizer.steps = n * env.nTrain
                       /\ r.scheduler.last_epoch = n
                       /\ pc[0] \in {"best", "loop", "done"} =>
                             /\ r.model = model[0]
                             /\ r.optimizer = optimizer[0]
                             /\ r.scheduler = scheduler[0]

C16_Witness ==
    /\ args.save_dir
    /\ env.world = NumProcs
    /\ env.nTrain > 0
    /\ pc[0] = "done"
    /\ hist[0].visited = <<0, 1, 2>>
    /\ hist[0].ckpt_writes = 3
    /\ \A r \in disk.checkpoint : r.epoch = 2 /\ r.model = 3 * env.nTrain
    /\ disk.checkpoint # {}

\* C17: within a run every per-batch telemetry write of the train series carries
\* a step greater than that of the previous write of the series, and likewise for
\* the valid series; the step is epoch * batches_per_epoch + batch_index.
C17_StepsIncrease ==
    [][\A p \in Procs :
          hist'[p].tele_writes > hist[p].tele_writes =>
             /\ pc[p] = "train" =>
                   /\ hist'[p].train_step > hist[p].train_step
                   /\ hist'[p].train_step = epoch[p] * env.nTrain + idx[p]
                   /\ hist'[p].valid_step = hist[p].valid_step
             /\ pc[p] = "valid" =>
                   /\ hist'[p].valid_step > hist[p].valid_step
                   /\ hist'[p].valid_step = epoch[p] * env.nValid + idx[p]
                   /\ hist'[p].train_step = hist[p].train_step
             /\ pc[p] \notin {"train", "valid"} =>
                   /\ hist'[p].train_step = hist[p].train_step
                   /\ hist'[p].valid_step = hist[p].valid_step
      ]_vars

C17_Witness ==
    /\ writer[0] = "open"
    /\ pc[0] = "done"
    /\ env.nTrain = MaxBatches /\ env.nValid = MaxBatches
    /\ hist[0].visited = <<1, 2>>
    /\ hist[0].train_step = 2 * MaxBatches + MaxBatches - 1
    /\ hist[0].valid_step = 2 * MaxBatches + MaxBatches - 1
    /\ hist[0].tele_writes = 2 * 3 * (2 * MaxBatches + 2)

\* The positions of the loop body before the scheduler step of line 114.
BeforeSchedulerStep == {"train", "train_sync", "train_end", "valid", "valid_sync", "valid_end",
                        "sched"}

\* C18: in every epoch e the driver executes, whatever the start configuration,
\* the scheduler's epoch counter equals e from the start of the epoch until the
\* scheduler step; and every record in the save directory stores a scheduler
\* advanced to its epoch + 1.
C18_SchedulerCounterIsEpoch ==
    /\ \A p \in Procs :
          pc[p] \in BeforeSchedulerStep => scheduler[p].last_epoch = epoch[p]
    /\ \A r \in disk.checkpoint \cup disk.best : r.scheduler.last_epoch = r.epoch + 1

\* C19: with a save directory configured, the check-then-create of lines 95-97
\* raises in no process, whatever the interleaving, and every process that is
\* past it finds the directory in place.
C19_MakeDirsSucceeds ==
    \A p \in Procs :
       args.save_dir =>
          /\ hist[p].error # "FileExistsError"
          /\ pc[p] \notin {"start", "mkdir"} => disk.dir

====
